---- MODULE Spec2Model ----
(***************************************************************************)
(* Smart-cut core of lossless-cut (src/renderer/src/smartcut.ts):          *)
(*   needsSmartCut          the cut point resolver                         *)
(*   getCodecParams         the codec parameter deriver                    *)
(*   getEncoderQualityArgs  the encoder quality argument builder           *)
(* and the crop overlay of the editing surface (CropOverlay):              *)
(*   handleMouseDown, handleMouseMove, handleMouseUp                       *)
(* Each function is a small state machine whose steps are the stretches of *)
(* code between two awaits.  Times are integers in the unit of the window  *)
(* constants (seconds).  An optional value (T | undefined) is a sequence   *)
(* of length at most one: <<>> is undefined, <<v>> is the value v.         *)
(***************************************************************************)
EXTENDS Integers, Sequences, FiniteSets, TLC

VARIABLES
  \* ---- needsSmartCut
  fileKeyframes,     \* times of the keyframes of the video stream in the file
  desiredCutFrom,    \* argument desiredCutFrom
  videoStreamIndex,  \* argument videoStream.index
  nscPc,             \* position in needsSmartCut
  keyframes,         \* local `keyframes`
  queries,           \* readKeyframesAroundTime calls issued so far, in order
  cutResult,         \* what the returned promise settled to
  \* ---- getCodecParams
  streams,           \* argument streams (ffprobe stream descriptors)
  fileDuration,      \* argument fileDuration (number | undefined)
  gcpPc,             \* position in getCodecParams
  statCalls,         \* number of stat(path) calls issued
  statSize,          \* stats.size as stat resolved it, if it did
  codecResult,       \* what the returned promise settled to
  \* ---- getEncoderQualityArgs
  encoder,           \* argument encoder
  outputIndex,       \* argument outputIndex
  customCRF,         \* argument customCRF (number | undefined)
  customPreset,      \* argument customPreset (string | undefined)
  qaPc,              \* position in getEncoderQualityArgs
  qualityArgs,       \* the returned args
  \* ---- CropOverlay
  videoWidth,        \* prop videoWidth
  videoHeight,       \* prop videoHeight
  displayWidth,      \* width of the overlay container's bounding rect
  displayHeight,     \* height of the overlay container's bounding rect
  cropRect,          \* prop cropRect
  isDragging,        \* state isDragging
  dragHandle,        \* state dragHandle (<<>> is null)
  dragStartRef,      \* dragStartRef.current (<<>> is null)
  lastChange,        \* the rectangle last passed to onChange, if any
  drags              \* number of mousedown events so far

nscVars == <<fileKeyframes, desiredCutFrom, videoStreamIndex, nscPc, keyframes,
             queries, cutResult>>

gcpVars == <<streams, fileDuration, gcpPc, statCalls, statSize, codecResult>>

qaVars == <<encoder, outputIndex, customCRF, customPreset, qaPc, qualityArgs>>

cropVars == <<videoWidth, videoHeight, displayWidth, displayHeight, cropRect,
              isDragging, dragHandle, dragStartRef, lastChange, drags>>

vars == <<nscVars, gcpVars, qaVars, cropVars>>

\* ------------------------------------------------------------------ bounds
MaxTime == 62
MaxKeyframes == 2
MaxStreamIndex == 1
MaxStreams == 2
MaxDuration == 3
MaxFileSize == 4
MaxFragments == 2
MaxOutputIndex == 2
MaxVideoSteps == 1
MaxDisplaySteps == 1
MaxMouse == 1
MaxDrags == 2

\* ------------------------------------------------------- program constants
\* line 128: readKeyframes(10)
FirstWindow == 10

\* ----------------------------------------------------------------- helpers
None == <<>>
Some(v) == <<v>>

Times == 0..MaxTime

SetMin(S) == CHOOSE m \in S : \A x \in S : m <= x

RECURSIVE AscendingFrames(_)
AscendingFrames(S) ==
  IF S = {} THEN <<>>
  ELSE <<[time |-> SetMin(S)]>> \o AscendingFrames(S \ {SetMin(S)})

\* Array.prototype.find, given the indexes that satisfy the test: the first
\* such element, or undefined
Find(arr, hits) == IF hits = {} THEN None ELSE Some(arr[SetMin(hits)])

\* ------------------------------------------------ collaborators (./ffmpeg)
\* The keyframe source: the keyframes of the stream lying in
\* [aroundTime - window, aroundTime + window], ascending by time.
ReadKeyframesAroundTime(streamKeyframes, aroundTime, window) ==
  AscendingFrames({t \in streamKeyframes :
                     aroundTime - window <= t /\ t <= aroundTime + window})

\* the keyframe whose time matches exactly (no tolerance added)
FindKeyframeAtExactTime(kfs, time) ==
  Find(kfs, {i \in 1..Len(kfs) : kfs[i].time = time})

\* the earliest keyframe at or after `time` of an ascending sequence
FindNextKeyframe(kfs, time) ==
  Find(kfs, {i \in 1..Len(kfs) : kfs[i].time >= time})

\* ============================================================ needsSmartCut
NoCutResult == [kind |-> "pending"]

\* line 126: the closure readKeyframes(window): the query it issues ...
KeyframeQuery(window) ==
  [streamIndex |-> videoStreamIndex, aroundTime |-> desiredCutFrom, window |-> window]

\* ... and what the query resolves to
ReadKeyframes(window) ==
  ReadKeyframesAroundTime(fileKeyframes, desiredCutFrom, window)

\* a retry that forgets to widen the window
WidenedWindow_NotWidened == FirstWindow

\* line 144: readKeyframes(60)
WidenedWindow == 60

\* a tolerant match: a keyframe up to one unit away counts as exact
ExactKeyframeIn_Tolerant(kfs) ==
  Find(kfs, {i \in 1..Len(kfs) : /\ kfs[i].time - desiredCutFrom <= 1
                                 /\ desiredCutFrom - kfs[i].time <= 1})

\* line 130: findKeyframeAtExactTime(keyframes, desiredCutFrom)
ExactKeyframeIn(kfs) == FindKeyframeAtExactTime(kfs, desiredCutFrom)

\* the first keyframe of the window, whatever its time
NextKeyframeIn_First(kfs) == IF kfs = <<>> THEN None ELSE Some(kfs[1])

\* lines 140, 145: findNextKeyframe(keyframes, desiredCutFrom)
NextKeyframeIn(kfs) == FindNextKeyframe(kfs, desiredCutFrom)

\* lines 134-137
LosslessDecision(kf) ==
  [kind |-> "ok", losslessCutFrom |-> kf.time, segmentNeedsSmartCut |-> FALSE]

\* lines 151-154
SmartCutDecision(kf) ==
  [kind |-> "ok", losslessCutFrom |-> kf.time, segmentNeedsSmartCut |-> TRUE]

\* the failure thrown as a plain Error
NoKeyframeError_Plain ==
  [kind |-> "Error",
   message |-> "Cannot find any keyframe after the desired start cut point"]

\* falls back to the last keyframe of the window when none follows
SmartCutOrError_Clamp(kfs) ==
  IF NextKeyframeIn(kfs) # None THEN [kind |-> "ok", losslessCutFrom |-> NextKeyframeIn(kfs)[1].time, segmentNeedsSmartCut |-> TRUE]
  ELSE IF kfs # <<>> THEN [kind |-> "ok", losslessCutFrom |-> kfs[Len(kfs)].time, segmentNeedsSmartCut |-> TRUE]
  ELSE [kind |-> "UserFacingError",
        message |-> "Cannot find any keyframe after the desired start cut point"]

\* line 147
NoKeyframeError ==
  [kind |-> "UserFacingError",
   message |-> "Cannot find any keyframe after the desired start cut point"]

\* line 128, up to the await: the first query is issued
NeedsSmartCutCall ==
  /\ nscPc = "start"
  /\ queries' = Append(queries, KeyframeQuery(FirstWindow))
  /\ nscPc' = "awaitFirst"
  /\ UNCHANGED <<fileKeyframes, desiredCutFrom, videoStreamIndex, keyframes, cutResult>>
  /\ UNCHANGED <<gcpVars, qaVars, cropVars>>

\* widens whenever the window holds no exact keyframe, a following one or not
NeedsSmartCutFirst_RetryUnlessExact ==
  /\ nscPc = "awaitFirst"
  /\ LET kfs == ReadKeyframes(FirstWindow)
     IN /\ keyframes' = kfs
        /\ IF ExactKeyframeIn(kfs) # None
           THEN /\ cutResult' = LosslessDecision(ExactKeyframeIn(kfs)[1])
                /\ nscPc' = "done"
                /\ UNCHANGED queries
           ELSE /\ queries' = Append(queries, KeyframeQuery(WidenedWindow))
                /\ nscPc' = "awaitWidened"
                /\ UNCHANGED cutResult
  /\ UNCHANGED <<fileKeyframes, desiredCutFrom, videoStreamIndex>>
  /\ UNCHANGED <<gcpVars, qaVars, cropVars>>

\* lines 128-147: the first query resolves; exact keyframe, next keyframe,
\* or the second query is issued
NeedsSmartCutFirst ==
  /\ nscPc = "awaitFirst"
  /\ LET kfs == ReadKeyframes(FirstWindow)
         keyframeAtExactTime == ExactKeyframeIn(kfs)
         nextKeyframe == NextKeyframeIn(kfs)
     IN /\ keyframes' = kfs
        /\ IF keyframeAtExactTime # None
           THEN /\ cutResult' = LosslessDecision(keyframeAtExactTime[1])
                /\ nscPc' = "done"
                /\ UNCHANGED queries
           ELSE IF nextKeyframe = None
           THEN /\ queries' = Append(queries, KeyframeQuery(WidenedWindow))
                /\ nscPc' = "awaitWidened"
                /\ UNCHANGED cutResult
           ELSE /\ cutResult' = SmartCutDecision(nextKeyframe[1])
                /\ nscPc' = "done"
                /\ UNCHANGED queries
  /\ UNCHANGED <<fileKeyframes, desiredCutFrom, videoStreamIndex>>
  /\ UNCHANGED <<gcpVars, qaVars, cropVars>>

\* lines 145-154: the next keyframe of the widened result, or the failure
SmartCutOrError(kfs) ==
  IF NextKeyframeIn(kfs) = None THEN NoKeyframeError
  ELSE SmartCutDecision(NextKeyframeIn(kfs)[1])

\* lines 144-154: the widened query resolves
NeedsSmartCutWidened ==
  /\ nscPc = "awaitWidened"
  /\ LET kfs == ReadKeyframes(WidenedWindow)
     IN /\ keyframes' = kfs
        /\ cutResult' = SmartCutOrError(kfs)
  /\ nscPc' = "done"
  /\ UNCHANGED <<fileKeyframes, desiredCutFrom, videoStreamIndex, queries>>
  /\ UNCHANGED <<gcpVars, qaVars, cropVars>>

\* the streams the model draws from: at most MaxKeyframes keyframes
RECURSIVE SetsUpTo(_)
SetsUpTo(k) ==
  IF k = 0 THEN {{}}
  ELSE LET smaller == SetsUpTo(k - 1)
       IN smaller \cup {S \cup {t} : S \in smaller, t \in Times}

KeyframeSets == SetsUpTo(MaxKeyframes)

DesiredTimes == {0, 1, MaxTime \div 2, MaxTime - 1, MaxTime}

NscInit ==
  /\ fileKeyframes \in KeyframeSets
  /\ desiredCutFrom \in DesiredTimes
  /\ videoStreamIndex \in 0..MaxStreamIndex
  /\ nscPc = "start"
  /\ keyframes = <<>>
  /\ queries = <<>>
  /\ cutResult = NoCutResult

NscNext == NeedsSmartCutCall \/ NeedsSmartCutFirst \/ NeedsSmartCutWidened

NscIdle ==
  /\ fileKeyframes = {}
  /\ desiredCutFrom = 0
  /\ videoStreamIndex = 0
  /\ nscPc = "off"
  /\ keyframes = <<>>
  /\ queries = <<>>
  /\ cutResult = NoCutResult

\* =========================================================== getCodecParams
\* ---- JavaScript numbers: a finite value is the exact fraction p/q (q > 0);
\* NaN and the infinities are values of their own.  (Doubles round; on the
\* integers the model draws, Math.floor(x * 1.2) is the floor of 6x/5.)
Num(n) == [k |-> "num", p |-> n, q |-> 1]
NaN == [k |-> "NaN", p |-> 0, q |-> 1]
Infinity == [k |-> "Infinity", p |-> 0, q |-> 1]
NegInfinity == [k |-> "-Infinity", p |-> 0, q |-> 1]

\* Number.isNaN
IsNaN(x) == x.k = "NaN"

\* a / b for integers a, b: division by zero gives NaN or an infinity
JsDivide(a, b) ==
  IF b = 0 THEN (IF a = 0 THEN NaN ELSE IF a > 0 THEN Infinity ELSE NegInfinity)
  ELSE IF b > 0 THEN [k |-> "num", p |-> a, q |-> b]
  ELSE [k |-> "num", p |-> -a, q |-> -b]

\* x * 1.2
JsTimesOnePointTwo(x) ==
  IF x.k = "num" THEN [k |-> "num", p |-> 6 * x.p, q |-> 5 * x.q] ELSE x

\* Math.floor
MathFloor(x) ==
  IF x.k = "num" THEN Num(x.p \div x.q) ELSE x

\* ---- parseInt(string, 10)
Char(s, i) == SubSeq(s, i, i)

DigitValue(c) ==
  CASE c = "0" -> 0 [] c = "1" -> 1 [] c = "2" -> 2 [] c = "3" -> 3 [] c = "4" -> 4
    [] c = "5" -> 5 [] c = "6" -> 6 [] c = "7" -> 7 [] c = "8" -> 8 [] c = "9" -> 9
    [] OTHER -> -1

IsDigit(c) == DigitValue(c) >= 0

\* index of the first character that is not white space (Len + 1 if none)
RECURSIVE SkipWhiteSpace(_, _)
SkipWhiteSpace(s, i) ==
  IF i <= Len(s) /\ Char(s, i) = " " THEN SkipWhiteSpace(s, i + 1) ELSE i

\* value of the longest run of digits starting at i, given the value so far
RECURSIVE DigitsFrom(_, _, _)
DigitsFrom(s, i, acc) ==
  IF i <= Len(s) /\ IsDigit(Char(s, i))
  THEN DigitsFrom(s, i + 1, 10 * acc + DigitValue(Char(s, i)))
  ELSE acc

ParseIntString(s) ==
  LET start == SkipWhiteSpace(s, 1)
      signed == start <= Len(s) /\ Char(s, start) \in {"-", "+"}
      negative == signed /\ Char(s, start) = "-"
      first == IF signed THEN start + 1 ELSE start
  IN IF first <= Len(s) /\ IsDigit(Char(s, first))
     THEN Num(IF negative THEN -DigitsFrom(s, first, 0) ELSE DigitsFrom(s, first, 0))
     ELSE NaN

\* parseInt(x, 10) of a string | undefined: undefined is read as "undefined"
ParseInt(x) == IF x = None THEN ParseIntString("undefined") ELSE ParseIntString(x[1])

\* ---- collaborator (./util/streams): the genuine decodable video streams,
\* i.e. video-typed streams that are not cover art / thumbnails
GetRealVideoStreams(ss) ==
  LET Real(st) == st.codec_type = "video" /\ st.attached_pic = 0
  IN SelectSeq(ss, Real)

\* line 12
MapVideoCodec(codec) == IF codec = "av1" THEN "libsvtav1" ELSE codec

NoCodecResult == [kind |-> "pending"]

InternalError(message) == [kind |-> "Error", message |-> message]

\* takes the first video stream however many there are
StreamCountError_FirstOfMany(videoStreams) ==
  IF Len(videoStreams) = 0 THEN Some(InternalError("Smart cut only works on videos"))
  ELSE None

\* lines 164-168: the failure for a number of real video streams other than 1
StreamCountError(videoStreams) ==
  IF Len(videoStreams) > 1
  THEN Some(InternalError("Can only smart cut video with exactly one video stream"))
  ELSE IF Len(videoStreams) = 0
  THEN Some(InternalError("Smart cut only works on videos"))
  ELSE None

\* line 175: (stats.size * 8) / fileDuration
EstimateBitrate(size, duration) == JsDivide(size * 8, duration)

\* the margin left out
WithSafetyMargin_None(videoBitrate) == MathFloor(videoBitrate)

\* line 181: Math.floor(videoBitrate * 1.2)
WithSafetyMargin(videoBitrate) == MathFloor(JsTimesOnePointTwo(videoBitrate))

\* lines 181-201: from the chosen bitrate to the result
CodecParamsFrom(videoStream, videoBitrate) ==
  IF videoStream.codec_name = None
  THEN InternalError("Unable to determine codec for smart cut")
  ELSE [kind |-> "ok",
        videoStream |-> videoStream,
        videoCodec |-> MapVideoCodec(videoStream.codec_name[1]),
        videoBitrate |-> MathFloor(WithSafetyMargin(videoBitrate))]

\* lines 163-173: stream selection, the reported bit rate, and either the
\* result or the stat call
GetCodecParamsCall ==
  /\ gcpPc = "start"
  /\ LET videoStreams == GetRealVideoStreams(streams)
     IN IF StreamCountError(videoStreams) # None
        THEN /\ codecResult' = StreamCountError(videoStreams)[1]
             /\ gcpPc' = "done"
             /\ UNCHANGED statCalls
        ELSE LET videoStream == videoStreams[1]
                 videoBitrate == ParseInt(videoStream.bit_rate)
             IN IF IsNaN(videoBitrate)
                THEN /\ statCalls' = statCalls + 1
                     /\ gcpPc' = "awaitStat"
                     /\ UNCHANGED codecResult
                ELSE /\ codecResult' = CodecParamsFrom(videoStream, videoBitrate)
                     /\ gcpPc' = "done"
                     /\ UNCHANGED statCalls
  /\ UNCHANGED <<streams, fileDuration, statSize>>
  /\ UNCHANGED <<nscVars, qaVars, cropVars>>

FileSizes == 0..MaxFileSize \cup {12500000}

\* lines 173-201: stat resolves with the file's size
GetCodecParamsStat ==
  /\ gcpPc = "awaitStat"
  /\ \E size \in FileSizes :
       /\ statSize' = Some(size)
       /\ codecResult' =
            IF fileDuration = None
            THEN InternalError("Video duration is unknown, cannot estimate bitrate")
            ELSE CodecParamsFrom(GetRealVideoStreams(streams)[1],
                                 EstimateBitrate(size, fileDuration[1]))
  /\ gcpPc' = "done"
  /\ UNCHANGED <<streams, fileDuration, statCalls>>
  /\ UNCHANGED <<nscVars, qaVars, cropVars>>

\* ---- the inputs the model draws
BitRates ==
  {None, Some(""), Some("0"), Some("1000000"), Some("-5"), Some("+7"), Some(" 42"),
   Some("12abc"), Some("N/A")}

RealVideoDescriptors ==
  [codec_type : {"video"}, attached_pic : {0}, bit_rate : BitRates,
   codec_name : {None, Some("h264"), Some("av1")}]

OtherDescriptors ==
  { [codec_type |-> "video", attached_pic |-> 1, bit_rate |-> None,
     codec_name |-> Some("mjpeg")],
    [codec_type |-> "audio", attached_pic |-> 0, bit_rate |-> Some("128000"),
     codec_name |-> Some("aac")] }

StreamLists ==
  UNION {[1..n -> RealVideoDescriptors \cup OtherDescriptors] : n \in 0..MaxStreams}

FileDurations == {None, Some(100)} \cup {Some(d) : d \in 0..MaxDuration}

GcpInit ==
  /\ streams \in StreamLists
  /\ fileDuration \in FileDurations
  /\ gcpPc = "start"
  /\ statCalls = 0
  /\ statSize = None
  /\ codecResult = NoCodecResult

GcpIdle ==
  /\ streams = <<>>
  /\ fileDuration = None
  /\ gcpPc = "off"
  /\ statCalls = 0
  /\ statSize = None
  /\ codecResult = NoCodecResult

GcpNext == GetCodecParamsCall \/ GetCodecParamsStat

\* ==================================================== getEncoderQualityArgs
\* String.prototype.includes
Includes(s, sub) ==
  \E i \in 1..(Len(s) - Len(sub) + 1) : SubSeq(s, i, i + Len(sub) - 1) = sub

DigitChar(d) ==
  CASE d = 0 -> "0" [] d = 1 -> "1" [] d = 2 -> "2" [] d = 3 -> "3" [] d = 4 -> "4"
    [] d = 5 -> "5" [] d = 6 -> "6" [] d = 7 -> "7" [] d = 8 -> "8" [] d = 9 -> "9"

\* String(n) and `${n}` of an integer: its decimal digits
RECURSIVE StringOfNumber(_)
StringOfNumber(n) ==
  IF n < 0 THEN "-" \o StringOfNumber(-n)
  ELSE IF n < 10 THEN DigitChar(n)
  ELSE StringOfNumber(n \div 10) \o DigitChar(n % 10)

\* lines 19-48
GetOptimalCRF(enc) ==
  IF enc = "libx264" THEN Some(23)
  ELSE IF enc = "libx265" THEN Some(28)
  ELSE IF enc = "libsvtav1" THEN Some(35)
  ELSE IF enc = "h264_nvenc" THEN Some(23)
  ELSE IF enc = "hevc_nvenc" THEN Some(28)
  ELSE IF enc = "av1_nvenc" THEN Some(30)
  ELSE IF enc = "h264_videotoolbox" THEN None
  ELSE IF enc = "hevc_videotoolbox" THEN None
  ELSE IF enc = "h264_qsv" THEN Some(23)
  ELSE IF enc = "hevc_qsv" THEN Some(28)
  ELSE IF enc = "av1_qsv" THEN Some(30)
  ELSE IF Includes(enc, "vaapi") THEN None
  ELSE IF enc = "h264_amf" THEN Some(23)
  ELSE IF enc = "hevc_amf" THEN Some(28)
  ELSE IF enc = "av1_amf" THEN Some(30)
  ELSE None

\* lines 54-76
GetOptimalPreset(enc) ==
  IF enc = "libx264" THEN Some("medium")
  ELSE IF enc = "libx265" THEN Some("medium")
  ELSE IF enc = "libsvtav1" THEN Some("6")
  ELSE IF Includes(enc, "nvenc") THEN Some("p4")
  ELSE IF Includes(enc, "videotoolbox") THEN None
  ELSE IF Includes(enc, "qsv") THEN Some("medium")
  ELSE IF Includes(enc, "vaapi") THEN None
  ELSE IF Includes(enc, "amf") THEN Some("balanced")
  ELSE None

\* lines 81-83
SupportsCRF(enc) == GetOptimalCRF(enc) # None

\* the operands swapped: the default wins over the override
NullishCoalesce_DefaultFirst(a, b) == IF b # None THEN b ELSE a

\* lines 91-92: a ?? b
NullishCoalesce(a, b) == IF a # None THEN a ELSE b

\* lines 96-105: the tokens pushed for a quality value
QualityDialectArgs(enc, index, crf) ==
  IF Includes(enc, "nvenc")
  THEN <<"-cq:" \o StringOfNumber(index), StringOfNumber(crf)>>
  ELSE IF Includes(enc, "qsv")
  THEN <<"-global_quality:" \o StringOfNumber(index), StringOfNumber(crf)>>
  ELSE IF Includes(enc, "amf")
  THEN <<"-qp_i:" \o StringOfNumber(index), StringOfNumber(crf),
         "-qp_p:" \o StringOfNumber(index), StringOfNumber(crf)>>
  ELSE <<"-crf:" \o StringOfNumber(index), StringOfNumber(crf)>>

\* lines 88-119
GetEncoderQualityArgs(enc, index, cCRF, cPreset) ==
  LET crf == NullishCoalesce(cCRF, GetOptimalCRF(enc))
      preset == NullishCoalesce(cPreset, GetOptimalPreset(enc))
      args0 == <<>>
      args1 == IF crf # None THEN args0 \o QualityDialectArgs(enc, index, crf[1])
               ELSE args0
      args2 == IF preset # None
               THEN args1 \o <<"-preset:" \o StringOfNumber(index), preset[1]>>
               ELSE args1
      args3 == IF Includes(enc, "videotoolbox")
               THEN args2 \o <<"-q:" \o StringOfNumber(index), "65">>
               ELSE args2
  IN args3

GetEncoderQualityArgsCall ==
  /\ qaPc = "start"
  /\ qualityArgs' = GetEncoderQualityArgs(encoder, outputIndex, customCRF, customPreset)
  /\ qaPc' = "done"
  /\ UNCHANGED <<encoder, outputIndex, customCRF, customPreset>>
  /\ UNCHANGED <<nscVars, gcpVars, cropVars>>

\* ---- the inputs the model draws: encoder identifiers made of at most
\* MaxFragments name fragments (every identifier the code names is one)
Fragments ==
  {"lib", "x264", "x265", "svtav1", "h264_", "hevc_", "av1_",
   "nvenc", "qsv", "amf", "videotoolbox", "vaapi"}

RECURSIVE Identifiers(_)
Identifiers(n) ==
  IF n = 0 THEN {""}
  ELSE LET shorter == Identifiers(n - 1)
       IN shorter \cup {a \o f : a \in shorter, f \in Fragments}

QaInit ==
  /\ encoder \in Identifiers(MaxFragments)
  /\ outputIndex \in 0..MaxOutputIndex
  /\ customCRF \in {None, Some(0), Some(18)}
  /\ customPreset \in {None, Some(""), Some("slow")}
  /\ qaPc = "start"
  /\ qualityArgs = <<>>

QaIdle ==
  /\ encoder = ""
  /\ outputIndex = 0
  /\ customCRF = None
  /\ customPreset = None
  /\ qaPc = "off"
  /\ qualityArgs = <<>>

QaNext == GetEncoderQualityArgsCall

\* ============================================================== CropOverlay
\* ---- Display coordinates.  Both scales are the same fraction A/V (A the
\* container's width or height, V the video's), and the offsets are halves of
\* multiples of 1/V, so every display coordinate is a whole number of units
\* of 1/(2V) pixel: a display coordinate c is held as the integer c * 2V.

\* Math.round of the fraction n/d (d > 0): the nearest integer, a half rounded up
MathRound(n, d) == (2 * n + d) \div (2 * d)

\* line 14
EnsureEven(n) == (n \div 2) * 2

\* line 177
MinSize == 50

\* lines 62-77: object-fit: contain fits the width of a wider video
FitsWidth == videoWidth * displayHeight > displayWidth * videoHeight

\* lines 52-80: scaleX = scaleY = num/den; the offsets in units of 1/(2 den)
GetVideoScale ==
  IF FitsWidth
  THEN [num |-> displayWidth, den |-> videoWidth,
        offsetX |-> 0,
        offsetY |-> displayHeight * videoWidth - videoHeight * displayWidth]
  ELSE [num |-> displayHeight, den |-> videoHeight,
        offsetX |-> displayWidth * videoHeight - videoWidth * displayHeight,
        offsetY |-> 0]

\* a whole number of display pixels in units of 1/(2 den)
DisplayUnits(pixels) == pixels * 2 * GetVideoScale.den

\* lines 83-91: rect.x * scaleX + offsetX, ..., in units
VideoToDisplay(rect) ==
  LET sc == GetVideoScale
  IN [x |-> rect.x * 2 * sc.num + sc.offsetX,
      y |-> rect.y * 2 * sc.num + sc.offsetY,
      width |-> rect.width * 2 * sc.num,
      height |-> rect.height * 2 * sc.num]

\* lines 94-100: Math.round((x - offsetX) / scaleX), ..., of x, y in units
DisplayToVideo(x, y) ==
  LET sc == GetVideoScale
  IN [x |-> MathRound(x - sc.offsetX, 2 * sc.num),
      y |-> MathRound(y - sc.offsetY, 2 * sc.num)]

\* lines 134-163: the display rectangle moved or resized by the handle
NewDisplayRect(handle, displayRect, deltaX, deltaY) ==
  LET dx == DisplayUnits(deltaX)
      dy == DisplayUnits(deltaY)
      movesLeft == handle \in {"move", "nw", "sw", "w"}
      movesTop == handle \in {"move", "nw", "ne", "n"}
  IN [x |-> IF movesLeft THEN displayRect.x + dx ELSE displayRect.x,
      y |-> IF movesTop THEN displayRect.y + dy ELSE displayRect.y,
      width |-> IF handle \in {"nw", "sw", "w"} THEN displayRect.width - dx
                ELSE IF handle \in {"ne", "se", "e"} THEN displayRect.width + dx
                ELSE displayRect.width,
      height |-> IF handle \in {"nw", "ne", "n"} THEN displayRect.height - dy
                 ELSE IF handle \in {"sw", "se", "s"} THEN displayRect.height + dy
                 ELSE displayRect.height]

\* lines 166-174: back to video coordinates
ToVideoRect(newDisplayRect) ==
  LET topLeft == DisplayToVideo(newDisplayRect.x, newDisplayRect.y)
      bottomRight == DisplayToVideo(newDisplayRect.x + newDisplayRect.width,
                                    newDisplayRect.y + newDisplayRect.height)
  IN [x |-> topLeft.x, y |-> topLeft.y,
      width |-> bottomRight.x - topLeft.x, height |-> bottomRight.y - topLeft.y]

\* lines 176-179: the minimum size
EnsureMinSize(r) ==
  [r EXCEPT !.width = IF r.width < MinSize THEN MinSize ELSE r.width,
            !.height = IF r.height < MinSize THEN MinSize ELSE r.height]

\* lines 181-197: the video bounds
ConstrainToVideo(handle, r) ==
  LET r1 == [r EXCEPT !.x = IF r.x < 0 THEN 0 ELSE r.x]
      r2 == [r1 EXCEPT !.y = IF r1.y < 0 THEN 0 ELSE r1.y]
      r3 == IF r2.x + r2.width > videoWidth
            THEN IF handle = "move" THEN [r2 EXCEPT !.x = videoWidth - r2.width]
                 ELSE [r2 EXCEPT !.width = videoWidth - r2.x]
            ELSE r2
      r4 == IF r3.y + r3.height > videoHeight
            THEN IF handle = "move" THEN [r3 EXCEPT !.y = videoHeight - r3.height]
                 ELSE [r3 EXCEPT !.height = videoHeight - r3.y]
            ELSE r3
  IN r4

\* lines 199-203: even dimensions
EvenRect(r) ==
  [x |-> EnsureEven(r.x), y |-> EnsureEven(r.y),
   width |-> EnsureEven(r.width), height |-> EnsureEven(r.height)]

DragHandles == {"move", "nw", "ne", "sw", "se", "n", "s", "e", "w"}

\* where the mouse can be, relative to the container's top left corner
MouseCoords == {40 * k : k \in (-1)..MaxMouse}

\* lines 102-116: mousedown on a handle at (x, y)
HandleMouseDown(handle, x, y) ==
  /\ drags < MaxDrags
  /\ drags' = drags + 1
  /\ isDragging' = TRUE
  /\ dragHandle' = Some(handle)
  /\ dragStartRef' = Some([x |-> x, y |-> y, rect |-> cropRect])
  /\ UNCHANGED <<videoWidth, videoHeight, displayWidth, displayHeight, cropRect,
                 lastChange>>
  /\ UNCHANGED <<nscVars, gcpVars, qaVars>>

\* lines 118-206: the rectangle handleMouseMove passes to onChange
DraggedRect(handle, start, currentX, currentY) ==
  LET deltaX == currentX - start.x
      deltaY == currentY - start.y
      displayRect == VideoToDisplay(start.rect)
      newRect == ToVideoRect(NewDisplayRect(handle, displayRect, deltaX, deltaY))
  IN EvenRect(ConstrainToVideo(handle, EnsureMinSize(newRect)))

\* lines 118-206: mousemove to (x, y) while dragging; onChange gets the new
\* rectangle, and the owner of cropRect stores it or keeps the old one
HandleMouseMove(x, y) ==
  /\ isDragging /\ dragHandle # None /\ dragStartRef # None
  /\ LET newRect == DraggedRect(dragHandle[1], dragStartRef[1], x, y)
     IN /\ lastChange' = Some(newRect)
        /\ cropRect' \in {newRect, cropRect}
  /\ UNCHANGED <<videoWidth, videoHeight, displayWidth, displayHeight, isDragging,
                 dragHandle, dragStartRef, drags>>
  /\ UNCHANGED <<nscVars, gcpVars, qaVars>>

\* lines 208-212: mouseup, listened to while dragging (lines 214-224)
HandleMouseUp ==
  /\ isDragging
  /\ isDragging' = FALSE
  /\ dragHandle' = None
  /\ dragStartRef' = None
  /\ UNCHANGED <<videoWidth, videoHeight, displayWidth, displayHeight, cropRect,
                 lastChange, drags>>
  /\ UNCHANGED <<nscVars, gcpVars, qaVars>>

\* ---- the props the model draws: videos of at least 50 x 50, and crop
\* rectangles inside the frame that are at least 50 x 50 themselves
VideoSizes == {50 + 25 * k : k \in 0..MaxVideoSteps}

DisplaySizes == {60 * k : k \in 1..MaxDisplaySteps}

InsideFrame(r) ==
  /\ r.x >= 0 /\ r.y >= 0
  /\ r.x + r.width <= videoWidth /\ r.y + r.height <= videoHeight

StartRects ==
  {r \in [x : {0, 10}, y : {0}, width : {50, videoWidth},
          height : {50, videoHeight}] : InsideFrame(r)}

CropInit ==
  /\ videoWidth \in VideoSizes
  /\ videoHeight \in VideoSizes
  /\ displayWidth \in DisplaySizes
  /\ displayHeight \in DisplaySizes
  /\ cropRect \in StartRects
  /\ isDragging = FALSE
  /\ dragHandle = None
  /\ dragStartRef = None
  /\ lastChange = None
  /\ drags = 0

CropIdle ==
  /\ videoWidth = 0
  /\ videoHeight = 0
  /\ displayWidth = 0
  /\ displayHeight = 0
  /\ cropRect = [x |-> 0, y |-> 0, width |-> 0, height |-> 0]
  /\ isDragging = FALSE
  /\ dragHandle = None
  /\ dragStartRef = None
  /\ lastChange = None
  /\ drags = 0

\* a mousedown lands on a handle, inside the container; the window-level
\* mousemove can be anywhere
InsideContainer(x, y) ==
  /\ 0 <= x /\ x <= displayWidth
  /\ 0 <= y /\ y <= displayHeight

MouseDown == \E h \in DragHandles, x \in MouseCoords, y \in MouseCoords :
               InsideContainer(x, y) /\ HandleMouseDown(h, x, y)

MouseMove == \E x \in MouseCoords, y \in MouseCoords : HandleMouseMove(x, y)

MouseUp == HandleMouseUp

CropNext == MouseDown \/ MouseMove \/ MouseUp

\* ========================================================== specifications
ResolveInit == NscInit /\ GcpIdle /\ QaIdle /\ CropIdle

DeriveInit == NscIdle /\ GcpInit /\ QaIdle /\ CropIdle

ArgsInit == NscIdle /\ GcpIdle /\ QaInit /\ CropIdle

OverlayInit == NscIdle /\ GcpIdle /\ QaIdle /\ CropInit

\* one call of needsSmartCut
SpecResolve == ResolveInit /\ [][NscNext]_vars

\* one call of getCodecParams
SpecDerive == DeriveInit /\ [][GcpNext]_vars

\* one call of getEncoderQualityArgs
SpecArgs == ArgsInit /\ [][QaNext]_vars

\* one mounted CropOverlay and the mouse events it handles
SpecCrop == OverlayInit /\ [][CropNext]_vars

\* one call of any of the three functions, or one overlay
Init == ResolveInit \/ DeriveInit \/ ArgsInit \/ OverlayInit

Next == NscNext \/ GcpNext \/ QaNext \/ CropNext

Spec == Init /\ [][Next]_vars

\* ================================================================== claims
KeyframesAtOrAfter == {t \in fileKeyframes : t >= desiredCutFrom}

\* C1: every CutDecision returned has losslessCutFrom >= desiredCutFrom when
\* segmentNeedsSmartCut is true and losslessCutFrom = desiredCutFrom when it
\* is false.
C1_CutNotBeforeDesired ==
  cutResult.kind = "ok" =>
    IF cutResult.segmentNeedsSmartCut
    THEN cutResult.losslessCutFrom >= desiredCutFrom
    ELSE cutResult.losslessCutFrom = desiredCutFrom

C1_Witness ==
  /\ cutResult.kind = "ok"
  /\ cutResult.segmentNeedsSmartCut
  /\ cutResult.losslessCutFrom > desiredCutFrom
  /\ \E t \in fileKeyframes : t < desiredCutFrom

\* C2: a keyframe at exactly the desired time gives {desiredCutFrom, false},
\* and segmentNeedsSmartCut = false is returned only when the window-10 query
\* holds a keyframe at exactly the desired time.
C2_ExactKeyframeIsLossless ==
  nscPc = "done" =>
    /\ desiredCutFrom \in fileKeyframes =>
         cutResult = [kind |-> "ok", losslessCutFrom |-> desiredCutFrom,
                      segmentNeedsSmartCut |-> FALSE]
    /\ (cutResult.kind = "ok" /\ ~cutResult.segmentNeedsSmartCut) =>
         \E t \in fileKeyframes :
            /\ desiredCutFrom - 10 <= t /\ t <= desiredCutFrom + 10
            /\ t = desiredCutFrom

C2_Witness ==
  /\ nscPc = "done"
  /\ desiredCutFrom \in fileKeyframes
  /\ Cardinality(fileKeyframes) = 2
  /\ cutResult.kind = "ok" /\ ~cutResult.segmentNeedsSmartCut

\* C3: with no keyframe at the desired time T but one at or after T within 60
\* units, the result is {T', true} with T' the smallest keyframe time >= T.
C3_NextKeyframeWithinSixty ==
  (/\ nscPc = "done"
   /\ desiredCutFrom \notin fileKeyframes
   /\ \E t \in KeyframesAtOrAfter : t - desiredCutFrom <= 60) =>
    cutResult = [kind |-> "ok", losslessCutFrom |-> SetMin(KeyframesAtOrAfter),
                 segmentNeedsSmartCut |-> TRUE]

\* the widening retry found the keyframe
C3_Witness ==
  /\ nscPc = "done"
  /\ Len(queries) = 2
  /\ cutResult.kind = "ok"
  /\ cutResult.losslessCutFrom - desiredCutFrom > 10

\* C4: with no keyframe at or after the desired time within 60 units, no
\* CutDecision is returned: the call fails with a UserFacingError.
C4_NoKeyframeIsUserFacingError ==
  (/\ nscPc = "done"
   /\ ~ \E t \in KeyframesAtOrAfter : t - desiredCutFrom <= 60) =>
    cutResult.kind = "UserFacingError"

C4_Witness ==
  /\ nscPc = "done"
  /\ cutResult.kind = "UserFacingError"
  /\ KeyframesAtOrAfter # {}
  /\ \E t \in fileKeyframes : t < desiredCutFrom

\* C5 as stated: a desired time before the first keyframe or after the last
\* one fails with the "no keyframe found" UserFacingError.
C5_OutsideKeyframesFails ==
  (/\ nscPc = "done"
   /\ fileKeyframes # {}
   /\ \/ \A t \in fileKeyframes : desiredCutFrom < t
      \/ \A t \in fileKeyframes : desiredCutFrom > t) =>
    cutResult.kind = "UserFacingError"

\* C5 amended: a desired time after the last keyframe fails with the
\* UserFacingError; a desired time before the first keyframe fails that way
\* only when the first keyframe is more than 60 units later, and otherwise the
\* result is {first keyframe, true}.
C5_Amended ==
  (nscPc = "done" /\ fileKeyframes # {}) =>
    /\ (\A t \in fileKeyframes : desiredCutFrom > t) =>
         cutResult.kind = "UserFacingError"
    /\ (\A t \in fileKeyframes : desiredCutFrom < t) =>
         IF SetMin(fileKeyframes) - desiredCutFrom > 60
         THEN cutResult.kind = "UserFacingError"
         ELSE cutResult = [kind |-> "ok", losslessCutFrom |-> SetMin(fileKeyframes),
                           segmentNeedsSmartCut |-> TRUE]

C5_Witness ==
  /\ nscPc = "done"
  /\ fileKeyframes # {}
  /\ \A t \in fileKeyframes : desiredCutFrom < t
  /\ cutResult.kind = "ok"

\* C6: a call issues at most two queries, window 10 then window 60, both
\* around desiredCutFrom on the same stream; the window-60 query is issued
\* exactly when the window-10 result holds no keyframe at or after the desired
\* time, and nothing is queried after it.
C6_QueryOrder ==
  LET q(w) == [streamIndex |-> videoStreamIndex, aroundTime |-> desiredCutFrom,
               window |-> w]
      inFirst == {t \in fileKeyframes :
                    desiredCutFrom - 10 <= t /\ t <= desiredCutFrom + 10}
  IN /\ queries \in {<<>>, <<q(10)>>, <<q(10), q(60)>>}
     /\ nscPc \in {"awaitWidened", "done"} =>
          (Len(queries) = 2 <=>
             ~ \E t \in inFirst : t = desiredCutFrom \/ t >= desiredCutFrom)
     /\ nscPc = "awaitFirst" => Len(queries) = 1

C6_Witness ==
  /\ nscPc = "done"
  /\ Len(queries) = 2
  /\ fileKeyframes # {}

\* ---------------------------------------------------------- getCodecParams
RealVideoIndexes ==
  {i \in 1..Len(streams) :
     streams[i].codec_type = "video" /\ streams[i].attached_pic = 0}

\* C7: with a number of real video streams other than exactly 1 (zero, or two
\* or more) getCodecParams fails with an internal error and returns no
\* CodecParams, whatever the bit rates, duration and codec names are.
C7_NotExactlyOneVideoStreamFails ==
  (gcpPc # "start" /\ Cardinality(RealVideoIndexes) # 1) =>
    /\ gcpPc = "done"
    /\ codecResult.kind = "Error"
    /\ statCalls = 0

C7_Witness ==
  /\ gcpPc = "done"
  /\ Cardinality(RealVideoIndexes) = 2
  /\ codecResult.kind = "Error"
  /\ \E i \in RealVideoIndexes : ParseInt(streams[i].bit_rate) = Num(1000000)

\* C8 as stated: whenever getCodecParams returns CodecParams, videoBitrate is
\* a non-negative integer and never NaN.
C8_BitrateIsNonNegativeInteger ==
  (gcpPc = "done" /\ codecResult.kind = "ok") =>
    /\ codecResult.videoBitrate.k = "num"
    /\ codecResult.videoBitrate.q = 1
    /\ codecResult.videoBitrate.p >= 0

\* C9: the returned videoBitrate is floor(1.2 * chosen), chosen being the
\* reported bit rate parsed as an integer when it parses and otherwise
\* size * 8 / fileDuration of the stat'd size (12,500,000 bytes over 100
\* seconds give 1,200,000); the file is stat'd, and its size used, only when
\* the reported bit rate does not parse.
C9_BitrateIsChosenTimesOnePointTwo ==
  (gcpPc = "done" /\ codecResult.kind = "ok") =>
    LET videoStream == streams[CHOOSE i \in RealVideoIndexes : TRUE]
        reported == ParseInt(videoStream.bit_rate)
        bitrate == codecResult.videoBitrate
    IN IF reported.k = "num"
       THEN /\ statCalls = 0 /\ statSize = None
            /\ bitrate = Num((6 * reported.p) \div 5)
       ELSE /\ statCalls = 1 /\ statSize # None /\ fileDuration # None
            /\ LET bits == statSize[1] * 8
                   seconds == fileDuration[1]
               IN IF seconds = 0
                  THEN bitrate.k = (IF bits = 0 THEN "NaN" ELSE "Infinity")
                  ELSE bitrate = Num((6 * bits) \div (5 * seconds))
            /\ (statSize[1] = 12500000 /\ fileDuration[1] = 100) =>
                 bitrate = Num(1200000)

C9_Witness ==
  /\ gcpPc = "done"
  /\ codecResult.kind = "ok"
  /\ statSize = Some(12500000)
  /\ fileDuration = Some(100)
  /\ codecResult.videoBitrate = Num(1200000)

\* ---------------------------------------------------- getEncoderQualityArgs
\* C10: the returned tokens are exactly (1) the quality tokens of the dialect,
\* scoped to outputIndex, when a quality (override, else default) is present:
\* -cq for nvenc, else -global_quality for qsv, else -qp_i and -qp_p for amf,
\* else -crf; then (2) -preset and the preset (override, else default) when
\* one is present; then (3) -q 65 for videotoolbox; an override wins over the
\* default, and nothing else is emitted.
C10_QualityArgsExactly ==
  qaPc = "done" =>
    LET i == ToString(outputIndex)
        quality == IF customCRF # None THEN customCRF ELSE GetOptimalCRF(encoder)
        preset == IF customPreset # None THEN customPreset
                  ELSE GetOptimalPreset(encoder)
        q == ToString(quality[1])
        qualityTokens ==
          IF quality = None THEN <<>>
          ELSE IF Includes(encoder, "nvenc") THEN <<"-cq:" \o i, q>>
          ELSE IF Includes(encoder, "qsv") THEN <<"-global_quality:" \o i, q>>
          ELSE IF Includes(encoder, "amf") THEN <<"-qp_i:" \o i, q, "-qp_p:" \o i, q>>
          ELSE <<"-crf:" \o i, q>>
        presetTokens == IF preset = None THEN <<>> ELSE <<"-preset:" \o i, preset[1]>>
        scaleTokens == IF Includes(encoder, "videotoolbox") THEN <<"-q:" \o i, "65">>
                       ELSE <<>>
    IN /\ qualityArgs = qualityTokens \o presetTokens \o scaleTokens
       /\ (encoder = "libx264" /\ outputIndex = 0 /\ customCRF = None
           /\ customPreset = None) =>
            qualityArgs = <<"-crf:0", "23", "-preset:0", "medium">>
       /\ (encoder = "h264_nvenc" /\ outputIndex = 2 /\ customCRF = Some(18)
           /\ customPreset = None) =>
            qualityArgs = <<"-cq:2", "18", "-preset:2", "p4">>

C10_Witness ==
  /\ qaPc = "done"
  /\ encoder = "h264_nvenc" /\ outputIndex = 2
  /\ customCRF = Some(18) /\ customPreset = None
  /\ qualityArgs = <<"-cq:2", "18", "-preset:2", "p4">>

\* -------------------------------------------------------------- CropOverlay
\* C11: every rectangle passed to onChange is a valid crop: x >= 0, y >= 0,
\* x + width <= videoWidth, y + height <= videoHeight, width >= 50 and
\* height >= 50.
C11_ChangedRectIsValidCrop ==
  lastChange # None =>
    LET r == lastChange[1]
    IN /\ r.x >= 0 /\ r.y >= 0
       /\ r.x + r.width <= videoWidth
       /\ r.y + r.height <= videoHeight
       /\ r.width >= 50 /\ r.height >= 50

====
